---- MODULE Spec2Model ----
(***************************************************************************)
(* The period cache of the Google Calendar report generator                *)
(* (src/gcal_report/gcal_app.py): the SQLite tables `periods` and `events`,*)
(* the operations of GoogleCalendarReport that read and write them, the    *)
(* fetch from the calendar service, and the two menu flows of main().      *)
(*                                                                         *)
(* Python values are modelled as follows.                                  *)
(*   dict        a function whose DOMAIN is the set of keys present, so    *)
(*               `k in d` is  k \in DOMAIN d                               *)
(*   str         a TLA+ string; an event title (summary) is a sequence of  *)
(*               one-character strings so that the regular expressions can *)
(*               look at its characters                                    *)
(*   float hours an integer number of seconds (hours * 3600)               *)
(*   exception   the name of the exception class, "" when none was raised  *)
(***************************************************************************)
EXTENDS Integers, Sequences, FiniteSets, TLC

\* Longest event list handed to store_period_in_database by a direct call.
MaxEvents == 2

\* Longest event list the calendar service returns to one get_events call.
MaxFetched == 1

\* Longest event title handed to the categorisation of the report.
MaxTitleLen == 6

\* Longest event list handed to generate_report by a direct call.
MaxReportEvents == 3

\* Longest event list of the listings
MaxListed == 3

\* Largest working_days_per_week of a configuration
MaxPerWeek == 7

\* Longest report period counted in days
MaxStatsDays == 10

\* The year of datetime.now() when get_date_range runs.
NowYear == 2024

\* DEFAULT_CONFIG["all_day_event_hours"]
all_day_event_hours == 8

\* DEFAULT_CONFIG["working_days_per_week"]
working_days_per_week == 5

VARIABLES
    db_conn,    \* TRUE: self.db_conn is an open connection; FALSE: it is None
    service,    \* TRUE: self.service was built by authenticate()
    periods,    \* table periods: period_key -> row
    events,     \* table events: the rows in rowid order, one row per id
    stored,     \* history: period_key -> the (id, summary) pairs handed to the
                \* most recent successful store of that key (kept by SpecHistory)
    latest,     \* history: event id -> what the most recent successful store
                \* that wrote the id was handed for it (kept by SpecUpsert)
    last        \* history: the operation that ran last, its inputs and outcome

vars == <<db_conn, service, periods, events, stored, latest, last>>

--------------------------------------------------------------------------
(* Dates and strings *)

Digit(n) ==
    CASE n = 0 -> "0" [] n = 1 -> "1" [] n = 2 -> "2" [] n = 3 -> "3"
      [] n = 4 -> "4" [] n = 5 -> "5" [] n = 6 -> "6" [] n = 7 -> "7"
      [] n = 8 -> "8" [] n = 9 -> "9"

Pad2(n) == Digit((n \div 10) % 10) \o Digit(n % 10)

Pad4(n) == Digit((n \div 1000) % 10) \o Digit((n \div 100) % 10) \o Pad2(n % 100)

datetime(y, mo, d, h, mi, s) ==
    [year |-> y, month |-> mo, day |-> d, hour |-> h, minute |-> mi, second |-> s]

\* Mutant: strftime("%Y%-m%-d"), month and day without the leading zero.
strftime_NoPad(dt) ==
    Pad4(dt.year) \o (IF dt.month < 10 THEN Digit(dt.month) ELSE Pad2(dt.month))
        \o (IF dt.day < 10 THEN Digit(dt.day) ELSE Pad2(dt.day))

\* strftime("%Y%m%d")
strftime_Ymd(dt) == Pad4(dt.year) \o Pad2(dt.month) \o Pad2(dt.day)

\* datetime.isoformat(); the UTC offset suffix is left out, no code reads it back
isoformat(dt) ==
    Pad4(dt.year) \o "-" \o Pad2(dt.month) \o "-" \o Pad2(dt.day) \o "T"
        \o Pad2(dt.hour) \o ":" \o Pad2(dt.minute) \o ":" \o Pad2(dt.second)

DaysInMonth(y, m) ==
    CASE m \in {1, 3, 5, 7, 8, 10, 12} -> 31
      [] m \in {4, 6, 9, 11} -> 30
      [] OTHER -> IF y % 4 = 0 /\ (y % 100 # 0 \/ y % 400 = 0) THEN 29 ELSE 28

\* The two periods of the menu that the model uses: a month and the year
\* that contains it.
MenuPeriods == {"month_1", "current_year"}

get_date_range(period) ==
    CASE period = "current_year" ->
            [start_date |-> datetime(NowYear, 1, 1, 0, 0, 0),
             end_date   |-> datetime(NowYear, 12, 31, 23, 59, 59)]
      [] period = "month_1" ->
            [start_date |-> datetime(NowYear, 1, 1, 0, 0, 0),
             end_date   |-> datetime(NowYear, 1, DaysInMonth(NowYear, 1), 23, 59, 59)]

get_period_key(period_type, start_date, end_date) ==
    period_type \o "_" \o strftime_Ymd(start_date) \o "_" \o strftime_Ymd(end_date)

\* The arguments (period_type, start_date, end_date) the callers pass.
PeriodArgs ==
    { [period_type |-> p,
       start_date  |-> get_date_range(p).start_date,
       end_date    |-> get_date_range(p).end_date] : p \in MenuPeriods }

KeyOf(a) == get_period_key(a.period_type, a.start_date, a.end_date)

PeriodKeys == { KeyOf(a) : a \in PeriodArgs }

\* date.toordinal(): the day number in the proleptic Gregorian calendar
DaysBeforeMonth(y, m) ==
    LET before == <<0, 31, 59, 90, 120, 151, 181, 212, 243, 273, 304, 334>>
    IN  before[m] + (IF m > 2 /\ DaysInMonth(y, 2) = 29 THEN 1 ELSE 0)

toordinal(y, m, d) ==
    365 * (y - 1) + ((y - 1) \div 4) - ((y - 1) \div 100) + ((y - 1) \div 400)
        + DaysBeforeMonth(y, m) + d

\* str.replace('Z', '+00:00') on the strings that occur in the model
ReplaceZ(s) ==
    IF s = "2024-01-01T15:00:00Z" THEN "2024-01-01T15:00:00+00:00" ELSE s

\* The ISO 8601 strings that occur in the model, as fromisoformat reads
\* them: the calendar fields and the UTC offset in seconds (0 for a string
\* without offset, which occurs only as a plain date).
IsoStrings ==
    {"2023-12-31", "2024-01-01", "2024-01-02", "2024-01-03",
     "2024-01-01T12:00:00-03:00", "2024-01-01T12:30:00-03:00",
     "2024-01-01T13:00:00-03:00", "2024-01-01T16:00:00+01:00",
     "2024-01-01T15:00:00+00:00", "2024-01-01T23:30:00-03:00",
     "2024-01-02T13:00:00-03:00"}

IsoFields(s) ==
    CASE s = "2023-12-31" -> [dt |-> datetime(2023, 12, 31, 0, 0, 0), utcoffset |-> 0]
      [] s = "2024-01-01" -> [dt |-> datetime(2024, 1, 1, 0, 0, 0), utcoffset |-> 0]
      [] s = "2024-01-02" -> [dt |-> datetime(2024, 1, 2, 0, 0, 0), utcoffset |-> 0]
      [] s = "2024-01-03" -> [dt |-> datetime(2024, 1, 3, 0, 0, 0), utcoffset |-> 0]
      [] s = "2024-01-01T12:00:00-03:00" ->
            [dt |-> datetime(2024, 1, 1, 12, 0, 0), utcoffset |-> -10800]
      [] s = "2024-01-01T12:30:00-03:00" ->
            [dt |-> datetime(2024, 1, 1, 12, 30, 0), utcoffset |-> -10800]
      [] s = "2024-01-01T13:00:00-03:00" ->
            [dt |-> datetime(2024, 1, 1, 13, 0, 0), utcoffset |-> -10800]
      [] s = "2024-01-01T16:00:00+01:00" ->
            [dt |-> datetime(2024, 1, 1, 16, 0, 0), utcoffset |-> 3600]
      [] s = "2024-01-01T15:00:00+00:00" ->
            [dt |-> datetime(2024, 1, 1, 15, 0, 0), utcoffset |-> 0]
      [] s = "2024-01-01T23:30:00-03:00" ->
            [dt |-> datetime(2024, 1, 1, 23, 30, 0), utcoffset |-> -10800]
      [] s = "2024-01-02T13:00:00-03:00" ->
            [dt |-> datetime(2024, 1, 2, 13, 0, 0), utcoffset |-> -10800]

\* Seconds from the midnight that starts NowYear to the wall-clock time dt
WallSeconds(dt) ==
    (toordinal(dt.year, dt.month, dt.day) - toordinal(NowYear, 1, 1)) * 86400
        + dt.hour * 3600 + dt.minute * 60 + dt.second

\* The instant of the fields read from a string: the wall-clock time less
\* the UTC offset
Aware(f) == [exc |-> "", secs |-> WallSeconds(f.dt) - f.utcoffset]

\* Mutant: the UTC offset of the string is dropped, the wall-clock time is
\* taken for the instant.
fromisoformat_WallClock(s) ==
    IF s \notin IsoStrings
    THEN [exc |-> "ValueError", secs |-> 0]
    ELSE [exc |-> "", secs |-> WallSeconds(IsoFields(s).dt)]

\* datetime.fromisoformat: the instant as seconds since the midnight (UTC)
\* that starts NowYear, or ValueError for a string it cannot read. The
\* difference of two results is the timedelta of the two datetimes.
fromisoformat(s) ==
    IF s \notin IsoStrings
    THEN [exc |-> "ValueError", secs |-> 0]
    ELSE Aware(IsoFields(s))

--------------------------------------------------------------------------
(* Events as the calendar service returns them *)

EmptyDict == [k \in {} |-> ""]

EvStandup ==
    [id |-> "1", summary |-> <<"@", "E", "N", "G", " ", "S">>,
     start |-> [date |-> "2024-01-01"], end |-> [date |-> "2024-01-02"]]

EvLunch ==
    [id |-> "2", summary |-> <<"L", "u">>,
     start |-> [dateTime |-> "2024-01-01T12:00:00-03:00"],
     end   |-> [dateTime |-> "2024-01-01T13:00:00-03:00"]]

EvNoId ==
    [summary |-> <<"L", "u">>,
     start |-> [dateTime |-> "2024-01-01T12:00:00-03:00"],
     end   |-> [dateTime |-> "2024-01-01T13:00:00-03:00"]]

EvNoSummary ==
    [id |-> "3",
     start |-> [dateTime |-> "2024-01-01T12:00:00-03:00"],
     end   |-> [dateTime |-> "2024-01-01T13:00:00-03:00"]]

EvNoStart == [id |-> "2", summary |-> <<"N", "s">>]

\* The events direct callers hand to the store: a well-formed all-day event,
\* a well-formed timed event, and events without id, summary or time span.
EventPool == {EvStandup, EvLunch, EvNoId, EvNoSummary, EvNoStart}

EventLists == UNION { [1..n -> EventPool] : n \in 0..MaxEvents }

\* The event of id "2" as the calendar returns it after it was renamed and
\* moved by half an hour.
EvLunchMoved ==
    [id |-> "2", summary |-> <<"L", "2">>,
     start |-> [dateTime |-> "2024-01-01T12:30:00-03:00"],
     end   |-> [dateTime |-> "2024-01-01T13:00:00-03:00"]]

\* The event of id "2" as the calendar returns it once its title was
\* cleared: the API leaves out the summary of an event without title.
EvUntitled ==
    [id |-> "2",
     start |-> [dateTime |-> "2024-01-01T12:30:00-03:00"],
     end   |-> [dateTime |-> "2024-01-01T13:00:00-03:00"]]

\* The events handed to the store when the same id is stored again and
\* again: three versions of event "2" (one of them without title), another
\* event, and an event without time span.
UpsertPool == {EvStandup, EvLunch, EvLunchMoved, EvUntitled, EvNoStart}

UpsertLists == UNION { [1..n -> UpsertPool] : n \in 0..MaxEvents }

--------------------------------------------------------------------------
(* Pure helpers of the store *)

Upper ==
    {"A", "B", "C", "D", "E", "F", "G", "H", "I", "J", "K", "L", "M",
     "N", "O", "P", "Q", "R", "S", "T", "U", "V", "W", "X", "Y", "Z"}

\* the ASCII characters \s matches: space, tab, newline, carriage return,
\* form feed (written FF) and vertical tab (written VT)
Whitespace == {" ", "\t", "\n", "\r", "FF", "VT"}

\* dict.get(key, default)
Get(d, k, default) == IF k \in DOMAIN d THEN d[k] ELSE default

\* re.match(r'^@([A-Z]{3})\s+(.*)', summary): group(1), or "Other"
StoreCategory(summary) ==
    IF /\ Len(summary) >= 5
       /\ summary[1] = "@"
       /\ \A i \in 2..4 : summary[i] \in Upper
       /\ summary[5] \in Whitespace
    THEN summary[2] \o summary[3] \o summary[4]
    ELSE "Other"

\* The all-day branch, given the two parsed dates: days * hours_per_day
AllDayDuration(start_date, end_date) ==
    IF start_date.exc # "" THEN [exc |-> start_date.exc, value |-> 0]
    ELSE IF end_date.exc # "" THEN [exc |-> end_date.exc, value |-> 0]
    ELSE [exc |-> "",
          value |-> ((end_date.secs - start_date.secs) \div 86400)
                       * all_day_event_hours * 3600]

\* The timed branch, given the two parsed instants: the seconds between
TimedDuration(start_time, end_time) ==
    IF start_time.exc # "" THEN [exc |-> start_time.exc, value |-> 0]
    ELSE IF end_time.exc # "" THEN [exc |-> end_time.exc, value |-> 0]
    ELSE [exc |-> "", value |-> end_time.secs - start_time.secs]

\* Duration in seconds (hours * 3600), or the exception fromisoformat raises.
calculate_event_duration(event) ==
    IF "start" \notin DOMAIN event \/ "end" \notin DOMAIN event
    THEN [exc |-> "", value |-> 0]
    ELSE IF "date" \in DOMAIN event.start /\ "date" \in DOMAIN event.end
    THEN AllDayDuration(fromisoformat(event.start.date), fromisoformat(event.end.date))
    ELSE IF "dateTime" \in DOMAIN event.start /\ "dateTime" \in DOMAIN event.end
    THEN TimedDuration(fromisoformat(ReplaceZ(event.start.dateTime)),
                       fromisoformat(ReplaceZ(event.end.dateTime)))
    ELSE [exc |-> "", value |-> 0]

\* The body of the store loop for one event that has an id and a summary:
\* the row to write, or the exception raised while building it.
EventRow(event, period_key) ==
    IF "start" \notin DOMAIN event
    THEN [exc |-> "KeyError"]
    ELSE IF "date" \in DOMAIN event.start /\ "end" \notin DOMAIN event
    THEN [exc |-> "KeyError"]
    ELSE LET all_day  == "date" \in DOMAIN event.start /\ "date" \in DOMAIN event.end
             duration == calculate_event_duration(event)
         IN  IF duration.exc # ""
             THEN [exc |-> duration.exc]
             ELSE [exc |-> "",
                   row |-> [id         |-> event.id,
                            summary    |-> event.summary,
                            start_time |-> IF all_day THEN event.start.date
                                           ELSE Get(Get(event, "start", EmptyDict), "dateTime", ""),
                            end_time   |-> IF all_day THEN event.end.date
                                           ELSE Get(Get(event, "end", EmptyDict), "dateTime", ""),
                            duration   |-> duration.value,
                            is_all_day |-> IF all_day THEN 1 ELSE 0,
                            category   |-> StoreCategory(event.summary),
                            period_key |-> period_key,
                            color      |-> Get(event, "colorId", "")]]

\* INSERT OR REPLACE INTO periods: period_key is the primary key
InsertOrReplacePeriod(tbl, row) ==
    [k \in DOMAIN tbl \cup {row.period_key} |-> IF k = row.period_key THEN row ELSE tbl[k]]

\* Mutant: INSERT OR IGNORE, the row an id already has is kept.
InsertOrIgnoreEvent(tbl, row) ==
    IF \E n \in 1..Len(tbl) : tbl[n].id = row.id THEN tbl ELSE tbl \o <<row>>

\* Mutant: a plain INSERT into a table without the primary key on id.
InsertEventAppend(tbl, row) == tbl \o <<row>>

\* INSERT OR REPLACE INTO events: id is the primary key; the replaced row is
\* deleted and the new one gets a fresh rowid
InsertOrReplaceEvent(tbl, row) ==
    SelectSeq(tbl, LAMBDA r : r.id # row.id) \o <<row>>

\* The for loop over events[i..], writing into the transaction's working copy
\* tbl. io_fault = i + 1 makes the INSERT of events[i] raise sqlite3.Error.
RECURSIVE StoreEvents(_, _, _, _, _, _)
StoreEvents(tbl, evs, i, period_key, io_fault, written) ==
    IF i > Len(evs)
    THEN [events |-> tbl, exc |-> "", written |-> written]
    ELSE IF "id" \notin DOMAIN evs[i] \/ "summary" \notin DOMAIN evs[i]
    THEN StoreEvents(tbl, evs, i + 1, period_key, io_fault, written)
    ELSE LET r == EventRow(evs[i], period_key)
         IN  IF r.exc # ""
             THEN [events |-> tbl, exc |-> r.exc, written |-> written]
             ELSE IF io_fault = i + 1
             THEN [events |-> tbl, exc |-> "sqlite3.Error", written |-> written]
             ELSE StoreEvents(InsertOrReplaceEvent(tbl, r.row), evs, i + 1,
                              period_key, io_fault, written + 1)

\* Mutant: success is reported but the transaction is never committed.
CommitLost(before, work) == before

\* self.db_conn.commit(): the working copy becomes the database
Commit(before, work) == work

\* Mutant: the except branch does not roll back; the rows written stay.
RollbackKeepsWrites(before, work) == work

\* self.db_conn.rollback(): the database is as before BEGIN TRANSACTION
Rollback(before, work) == before

\* The io_fault values of a call: 0 no fault, 1 the INSERT into periods
\* raises, i + 1 the INSERT of events[i] raises, Len + 2 commit raises. Only
\* a statement that the call executes can raise.
IoFaults(evs) ==
    LET clean == StoreEvents(<<>>, evs, 1, "", 0, 0)
        reached(i) == \/ i <= 1
                      \/ /\ i = Len(evs) + 2
                         /\ clean.exc = ""
                      \/ /\ i \in 2..(Len(evs) + 1)
                         /\ StoreEvents(<<>>, evs, 1, "", i, 0).exc = "sqlite3.Error"
    IN  { i \in 0..(Len(evs) + 2) : reached(i) }

\* store_period_in_database on the tables (p, e): the return value, the tables
\* afterwards, the exception caught and the event rows written before it.
store_period_in_database(conn, p, e, a, evs, io_fault) ==
    LET period_key == get_period_key(a.period_type, a.start_date, a.end_date)
        before     == [periods |-> p, events |-> e]
        period_row == [period_key  |-> period_key,
                       period_type |-> a.period_type,
                       start_date  |-> isoformat(a.start_date),
                       end_date    |-> isoformat(a.end_date),
                       is_complete |-> 1]
        loop       == StoreEvents(e, evs, 1, period_key, io_fault, 0)
        work       == [periods |-> InsertOrReplacePeriod(p, period_row),
                       events  |-> loop.events]
    IN  IF ~conn
        THEN [ok |-> FALSE, db |-> before, exc |-> "", written |-> 0]
        ELSE IF io_fault = 1
        THEN [ok |-> FALSE, db |-> Rollback(before, before),
              exc |-> "sqlite3.Error", written |-> 0]
        ELSE IF loop.exc # ""
        THEN [ok |-> FALSE, db |-> Rollback(before, work),
              exc |-> loop.exc, written |-> loop.written]
        ELSE IF io_fault = Len(evs) + 2
        THEN [ok |-> FALSE, db |-> Rollback(before, work),
              exc |-> "sqlite3.Error", written |-> loop.written]
        ELSE [ok |-> TRUE, db |-> Commit(before, work),
              exc |-> "", written |-> loop.written]

\* is_period_in_database; db_error: the SELECT raises
is_period_in_database(conn, p, period_key, db_error) ==
    IF ~conn THEN FALSE
    ELSE IF db_error THEN FALSE
    ELSE period_key \in DOMAIN p /\ p[period_key].is_complete = 1

\* The dict get_events_from_database builds from one row
RowToEvent(row) ==
    [id       |-> row.id,
     summary  |-> row.summary,
     start    |-> IF row.is_all_day = 0 THEN [dateTime |-> row.start_time]
                  ELSE [date |-> row.start_time],
     end      |-> IF row.is_all_day = 0 THEN [dateTime |-> row.end_time]
                  ELSE [date |-> row.end_time],
     duration |-> row.duration,
     category |-> row.category,
     colorId  |-> IF row.color # "" THEN row.color ELSE "None"]

RECURSIVE MapRows(_)
MapRows(rows) ==
    IF rows = <<>> THEN <<>> ELSE <<RowToEvent(Head(rows))>> \o MapRows(Tail(rows))

\* Mutant: the SELECT has no WHERE period_key = ? clause.
get_events_from_database_AllRows(conn, e, period_key, db_error) ==
    IF ~conn THEN <<>>
    ELSE IF db_error THEN <<>>
    ELSE MapRows(e)

\* get_events_from_database; db_error: the SELECT raises
get_events_from_database(conn, e, period_key, db_error) ==
    IF ~conn THEN <<>>
    ELSE IF db_error THEN <<>>
    ELSE MapRows(SelectSeq(e, LAMBDA r : r.period_key = period_key))

--------------------------------------------------------------------------
(* The fetch and the report *)

\* The events the calendar service returns (it always sets an id).
FetchPool == {EvStandup, EvLunch, EvNoSummary, EvNoStart}

FetchedLists == UNION { [1..n -> FetchPool] : n \in 0..MaxFetched }

\* What self.service.events().list(...).execute() does over all calendars and
\* pages of one get_events call: the items, HttpError, or another exception.
FetchOutcomes ==
    { [kind |-> "items", items |-> evs] : evs \in FetchedLists }
        \cup { [kind |-> "HttpError", items |-> <<>>],
               [kind |-> "Exception", items |-> <<>>] }

\* The fetch outcome written down when the service is not called.
NotFetched == [kind |-> "", items |-> <<>>]

\* Where a SELECT of get_events can raise: nowhere, in is_period_in_database,
\* or in get_events_from_database.
DbFaults == {"", "is_period", "load"}

\* Mutant: the authentication check runs before the cache lookup.
get_events_AuthFirst(conn, svc, p, e, a, fetch, db_fault) ==
    LET period_key == get_period_key(a.period_type, a.start_date, a.end_date)
    IN  IF ~svc
        THEN [result |-> <<>>, exc |-> "", hit |-> FALSE, fetched |-> FALSE]
        ELSE IF is_period_in_database(conn, p, period_key, db_fault = "is_period")
        THEN [result  |-> get_events_from_database(conn, e, period_key, db_fault = "load"),
              exc |-> "", hit |-> TRUE, fetched |-> FALSE]
        ELSE IF fetch.kind = "items"
        THEN [result |-> fetch.items, exc |-> "", hit |-> FALSE, fetched |-> TRUE]
        ELSE IF fetch.kind = "HttpError"
        THEN [result |-> <<>>, exc |-> "", hit |-> FALSE, fetched |-> TRUE]
        ELSE [result |-> <<>>, exc |-> "Exception", hit |-> FALSE, fetched |-> TRUE]

\* get_events: the list returned (or the exception that escapes), whether the
\* cache answered, and whether the calendar service was called.
get_events(conn, svc, p, e, a, fetch, db_fault) ==
    LET period_key == get_period_key(a.period_type, a.start_date, a.end_date)
    IN  IF is_period_in_database(conn, p, period_key, db_fault = "is_period")
        THEN [result  |-> get_events_from_database(conn, e, period_key, db_fault = "load"),
              exc |-> "", hit |-> TRUE, fetched |-> FALSE]
        ELSE IF ~svc
        THEN [result |-> <<>>, exc |-> "", hit |-> FALSE, fetched |-> FALSE]
        ELSE IF fetch.kind = "items"
        THEN [result |-> fetch.items, exc |-> "", hit |-> FALSE, fetched |-> TRUE]
        ELSE IF fetch.kind = "HttpError"
        THEN [result |-> <<>>, exc |-> "", hit |-> FALSE, fetched |-> TRUE]
        ELSE [result |-> <<>>, exc |-> "Exception", hit |-> FALSE, fetched |-> TRUE]

\* The environment of one get_events call: a SELECT raises only if it runs,
\* and the service answers only if it is called.
GetEventsEnv(conn, svc, p, a) ==
    { env \in [fetch : FetchOutcomes \cup {NotFetched}, db_fault : DbFaults] :
        LET hit    == is_period_in_database(conn, p, KeyOf(a), env.db_fault = "is_period")
            called == ~hit /\ svc
        IN  /\ (env.db_fault = "is_period") => conn
            /\ (env.db_fault = "load") => hit
            /\ (env.fetch = NotFetched) <=> ~called }

\* The exception generate_report raises while resolving the display fields
\* of one event that has a summary, "" when it raises none.
ReportEventExc(event) ==
    IF "start" \notin DOMAIN event THEN "KeyError"
    ELSE IF "date" \in DOMAIN event.start
    THEN IF "end" \notin DOMAIN event \/ "date" \notin DOMAIN event.end THEN "KeyError"
         ELSE IF fromisoformat(event.start.date).exc # ""
         THEN fromisoformat(event.start.date).exc
         ELSE fromisoformat(event.end.date).exc
    ELSE IF "dateTime" \notin DOMAIN event.start THEN "KeyError"
         ELSE IF fromisoformat(ReplaceZ(event.start.dateTime)).exc # ""
         THEN fromisoformat(ReplaceZ(event.start.dateTime)).exc
         ELSE IF "end" \notin DOMAIN event \/ "dateTime" \notin DOMAIN event.end
         THEN "KeyError"
         ELSE fromisoformat(ReplaceZ(event.end.dateTime)).exc

\* The event loop of generate_report: the exception of the first event that
\* raises one, "" when the loop completes.
RECURSIVE ReportLoop(_, _)
ReportLoop(evs, i) ==
    IF i > Len(evs) THEN ""
    ELSE IF "summary" \notin DOMAIN evs[i] THEN ReportLoop(evs, i + 1)
    ELSE IF ReportEventExc(evs[i]) # "" THEN ReportEventExc(evs[i])
    ELSE ReportLoop(evs, i + 1)

\* The part of a string that `.*` matches from its start: `.` matches every
\* character but the line feed.
RECURSIVE DotStar(_)
DotStar(s) ==
    IF s = <<>> \/ Head(s) = "\n" THEN <<>> ELSE <<Head(s)>> \o DotStar(Tail(s))

\* Whether re.match(r'^@([A-Z]{3})[ _](.*)', summary) matches
ReportMatch(summary) ==
    /\ Len(summary) >= 5
    /\ summary[1] = "@"
    /\ \A i \in 2..4 : summary[i] \in Upper
    /\ summary[5] \in {" ", "_"}

\* Mutant: the tag must be followed by a space; an underscore does not do.
ReportCategory_SpaceOnly(summary) ==
    IF ReportMatch(summary) /\ summary[5] = " "
    THEN [category    |-> summary[2] \o summary[3] \o summary[4],
          subcategory |-> DotStar(SubSeq(summary, 6, Len(summary)))]
    ELSE [category |-> "Other", subcategory |-> summary]

\* category and subcategory of a title: group(1) and group(2) of the match,
\* or "Other" and the title
ReportCategory(summary) ==
    IF ReportMatch(summary)
    THEN [category    |-> summary[2] \o summary[3] \o summary[4],
          subcategory |-> DotStar(SubSeq(summary, 6, Len(summary)))]
    ELSE [category |-> "Other", subcategory |-> summary]

\* strftime("%Y-%m-%d")
strftime_Y_m_d(dt) == Pad4(dt.year) \o "-" \o Pad2(dt.month) \o "-" \o Pad2(dt.day)

\* int(x) of the quotient n / d: truncation towards zero
Trunc(n, d) == IF n >= 0 THEN n \div d ELSE -((-n) \div d)

\* The integer nearest to n / d (d > 0), the even one when two are equally
\* near: what round() and the format .1f do
RoundHalfEven(n, d) ==
    IF 2 * (n % d) < d THEN n \div d
    ELSE IF 2 * (n % d) > d THEN (n \div d) + 1
    ELSE IF (n \div d) % 2 = 0 THEN n \div d
    ELSE (n \div d) + 1

\* duration_str of an all-day event: f"{days} day(s)"
AllDayDurationStr(days) == [n |-> days, unit |-> "day(s)"]

\* duration_str of a timed event of the given seconds: f"{int(duration * 60)}
\* min" below one hour, else f"{duration:.1f} hrs" (n is then in tenths)
TimedDurationStr(secs) ==
    IF secs < 3600
    THEN [n |-> Trunc(secs, 60), unit |-> "min"]
    ELSE [n |-> RoundHalfEven(secs, 360), unit |-> "hrs"]

\* event_data, given the category match, the date shown, the duration and
\* its label; the display strings of the two times are left out.
event_data(event, cat, date, duration, duration_str) ==
    [summary      |-> event.summary,
     subcategory  |-> cat.subcategory,
     date         |-> date,
     duration     |-> duration.value,
     duration_str |-> duration_str,
     category     |-> cat.category,
     color        |-> Get(event, "colorId", "")]

\* The all-day branch of the loop, given the two parsed dates
AllDayData(event, cat, start, end) ==
    event_data(event, cat, event.start.date, AllDayDuration(start, end),
               AllDayDurationStr((end.secs - start.secs) \div 86400))

\* The timed branch of the loop, given the fields of the start and the two
\* parsed instants
TimedData(event, cat, start_dt, start, end) ==
    event_data(event, cat, strftime_Y_m_d(start_dt), TimedDuration(start, end),
               TimedDurationStr(end.secs - start.secs))

\* event_data of one event that has a summary and raises nothing
ReportEventData(event) ==
    IF "date" \in DOMAIN event.start
    THEN AllDayData(event, ReportCategory(event.summary),
                    fromisoformat(event.start.date), fromisoformat(event.end.date))
    ELSE TimedData(event, ReportCategory(event.summary),
                   IsoFields(ReplaceZ(event.start.dateTime)).dt,
                   fromisoformat(ReplaceZ(event.start.dateTime)),
                   fromisoformat(ReplaceZ(event.end.dateTime)))

\* The event_data of the events of evs[i..] that have a summary, in the
\* order of the list.
RECURSIVE ReportData(_, _)
ReportData(evs, i) ==
    IF i > Len(evs) THEN <<>>
    ELSE IF "summary" \notin DOMAIN evs[i] THEN ReportData(evs, i + 1)
    ELSE <<ReportEventData(evs[i])>> \o ReportData(evs, i + 1)

\* Mutant: the whole days between the two datetimes, without the + 1.
TotalDays_Between(start_date, end_date) ==
    (WallSeconds(end_date) - WallSeconds(start_date)) \div 86400

\* total_days = (end_date - start_date).days + 1
TotalDays(start_date, end_date) ==
    ((WallSeconds(end_date) - WallSeconds(start_date)) \div 86400) + 1

\* working_days = round(total_days / 7 * working_days_per_week), for the
\* working_days_per_week of the configuration
WorkingDays(total_days, per_week) == RoundHalfEven(total_days * per_week, 7)

\* Mutant: the average is computed without the test working_days > 0.
avg_hours_per_working_day_NoGuard(total_secs, working_days) ==
    IF working_days # 0
    THEN [exc |-> "", num |-> total_secs, den |-> 3600 * working_days]
    ELSE [exc |-> "ZeroDivisionError", num |-> 0, den |-> 1]

\* avg_hours_per_working_day = total_hours / working_days if working_days > 0
\* else 0, as the fraction num / den of hours; the total is in seconds
avg_hours_per_working_day(total_secs, working_days) ==
    IF working_days > 0
    THEN [exc |-> "", num |-> total_secs, den |-> 3600 * working_days]
    ELSE [exc |-> "", num |-> 0, den |-> 1]

\* summary.count('@')
CountAt(summary) == Cardinality({ i \in 1..Len(summary) : summary[i] = "@" })

\* The condition of the `continue` in the recurrence summary: more than one
\* @, or no match of r'^@[A-Z]{3}[ _].*$' ($ matches at the end and before
\* a line feed that ends the string)
RecurrenceSkip(summary) ==
    \/ CountAt(summary) > 1
    \/ ~ReportMatch(summary)
    \/ \E i \in 6..(Len(summary) - 1) : summary[i] = "\n"

\* Whether the loop of the recurrence summary prints a line for a title.
\* The statements that format and print the line are indented under the
\* `if`, after its `continue`: they never run, and the loop body has no
\* other statement.
RecurrencePrinted(summary) ==
    IF RecurrenceSkip(summary) THEN FALSE ELSE FALSE

\* The titles that have a line in the recurrence summary.
RecurrenceSummary(data) ==
    { data[i].summary : i \in { j \in 1..Len(data) : RecurrencePrinted(data[j].summary) } }

\* Sum of the durations of a sequence of event_data
RECURSIVE SumDurations(_)
SumDurations(data) ==
    IF data = <<>> THEN 0 ELSE Head(data).duration + SumDurations(Tail(data))

\* category_durations[category]
category_durations(data, category) ==
    SumDurations(SelectSeq(data, LAMBDA d : d.category = category))

\* Mutant: an event whose title has more than one @ is left out of the
\* categorized view.
categorized_events_SingleAt(data, category) ==
    SelectSeq(data, LAMBDA d : d.category = category /\ category # "Other"
                                  /\ CountAt(d.summary) <= 1)

\* categorized_events[category]: the event_data appended for the category,
\* in the order of the list; "Other" goes to uncategorized_events instead
categorized_events(data, category) ==
    SelectSeq(data, LAMBDA d : d.category = category /\ category # "Other")

uncategorized_events(data) == SelectSeq(data, LAMBDA d : d.category = "Other")

\* The categorized view: for every category that has events, the total and
\* the events of its header and table (the display order of the events and
\* the grouping by subcategory are left out).
CategorizedView(data) ==
    [c \in { data[i].category : i \in { j \in 1..Len(data) :
                                           categorized_events(data, data[j].category) # <<>> } } |->
        [total  |-> category_durations(data, c),
         events |-> categorized_events(data, c)]]

\* The uncategorized section, printed when it has events.
UncategorizedView(data) ==
    [total  |-> category_durations(data, "Other"),
     events |-> uncategorized_events(data)]

\* The keys of a dict in insertion order: the distinct values of a sequence,
\* each at the place of its first occurrence
RECURSIVE Keys(_)
Keys(seq) ==
    IF seq = <<>> THEN <<>>
    ELSE <<Head(seq)>> \o Keys(SelectSeq(Tail(seq), LAMBDA x : x # Head(seq)))

\* The day number of a datetime
Ordinal(dt) == toordinal(dt.year, dt.month, dt.day)

\* The place of x['date'] in the order of strings: the dates are all written
\* YYYY-MM-DD with leading zeros, so they compare as their days do
DateKey(date) == Ordinal(IsoFields(date).dt)

\* list.sort(key=...) and sorted(..., key=...): the sort is stable, elements
\* of equal key keep their order, with reverse=True as well
\* (keys[i] is the key of seq[i])
sorted(seq, keys, reverse) ==
    LET before(j, i) ==
            IF keys[j] = keys[i] THEN j < i
            ELSE IF reverse THEN keys[j] > keys[i]
            ELSE keys[j] < keys[i]
        rank(i) == 1 + Cardinality({ j \in 1..Len(seq) : before(j, i) })
    IN  [n \in 1..Len(seq) |-> seq[CHOOSE i \in 1..Len(seq) : rank(i) = n]]

\* sort(key=lambda x: x['date'])
SortByDate(seq) ==
    sorted(seq, [i \in 1..Len(seq) |-> DateKey(seq[i].date)], FALSE)

\* categorized_events.keys(): the categories in the order the loop met them
CategoryKeys(data) ==
    Keys(SelectSeq([i \in 1..Len(data) |-> data[i].category], LAMBDA c : c # "Other"))

\* all_events after the extend calls: the lists of the categories one after
\* the other, then the uncategorized events
RECURSIVE ExtendAll(_, _)
ExtendAll(data, cats) ==
    IF cats = <<>> THEN uncategorized_events(data)
    ELSE categorized_events(data, Head(cats)) \o ExtendAll(data, Tail(cats))

\* Mutant: the chronological listing is printed without the sort.
all_events_Unsorted(data) == ExtendAll(data, CategoryKeys(data))

\* The chronological listing: all_events sorted by date
all_events(data) == SortByDate(ExtendAll(data, CategoryKeys(data)))

\* The (category, total) pairs before they are sorted
CategoryTotals(data, cats) ==
    [i \in 1..Len(cats) |-> [category |-> cats[i],
                              total    |-> category_durations(data, cats[i])]]

\* sorted(..., key=lambda x: x[1], reverse=...) on (category, total) pairs
SortByTotal(pairs, reverse) ==
    sorted(pairs, [i \in 1..Len(pairs) |-> pairs[i].total], reverse)

\* Mutant: the categories are sorted by rising total.
sorted_categories_Ascending(data) ==
    SortByTotal(CategoryTotals(data, CategoryKeys(data)), FALSE)

\* sorted_categories: by total duration, largest first
sorted_categories(data) ==
    SortByTotal(CategoryTotals(data, CategoryKeys(data)), TRUE)

\* subcategory_groups[subcategory] of the events of one category
subcategory_groups(events_list, subcategory) ==
    SelectSeq(events_list, LAMBDA d : d.subcategory = subcategory)

\* subcategory_durations[subcategory]
subcategory_durations(events_list, subcategory) ==
    SumDurations(subcategory_groups(events_list, subcategory))

\* subcategory_groups.keys()
SubcategoryKeys(events_list) ==
    Keys([i \in 1..Len(events_list) |-> events_list[i].subcategory])

\* sorted(subcategory_groups.items(), key=lambda x:
\* subcategory_durations[x[0]], reverse=True), given the keys
SortSubcategories(events_list, subcategories) ==
    sorted(subcategories,
           [i \in 1..Len(subcategories) |->
               subcategory_durations(events_list, subcategories[i])], TRUE)

\* The subcategories of one category as they are printed, given their
\* order: header total and the events sorted by date
SubcategoryTables(events_list, order) ==
    [i \in 1..Len(order) |->
        [subcategory |-> order[i],
         total       |-> subcategory_durations(events_list, order[i]),
         events      |-> SortByDate(subcategory_groups(events_list, order[i]))]]

\* The subcategories of one category, largest total first
SubcategoryView(events_list) ==
    SubcategoryTables(events_list,
        SortSubcategories(events_list, SubcategoryKeys(events_list)))

\* The categorized section as it is printed, given the sorted categories
CategoryTables(data, order) ==
    [i \in 1..Len(order) |->
        [category |-> order[i].category,
         total    |-> order[i].total,
         count    |-> Len(categorized_events(data, order[i].category)),
         groups   |-> SubcategoryView(categorized_events(data, order[i].category))]]

\* sort(key=lambda x: x['duration'], reverse=True)
SortByDuration(seq) ==
    sorted(seq, [i \in 1..Len(seq) |-> seq[i].duration], TRUE)

\* Mutant: the uncategorized events are sorted by date.
sorted_uncategorized_ByDate(data) == SortByDate(uncategorized_events(data))

\* uncategorized_events after its sort: by duration, longest first
sorted_uncategorized(data) == SortByDuration(uncategorized_events(data))

\* The record of a report, given its parts
ReportRecord(out, exc, data, total_days, working_days, avg) ==
    [out |-> IF avg.exc # "" THEN "" ELSE out,
     exc |-> IF exc # "" THEN exc ELSE avg.exc,
     data |-> data,
     all_events    |-> all_events(data),
     total_hours   |-> SumDurations(data),
     total_days    |-> total_days,
     working_days  |-> working_days,
     avg_hours_per_working_day |-> [num |-> avg.num, den |-> avg.den],
     categorized   |-> CategorizedView(data),
     categories    |-> CategoryTables(data, sorted_categories(data)),
     uncategorized |-> UncategorizedView(data),
     others        |-> sorted_uncategorized(data),
     recurring     |-> RecurrenceSummary(data)]

\* What generate_report did, given the event_data it collected, the days of
\* the period and the working_days_per_week of the configuration.
ReportOf(out, exc, data, total_days, per_week) ==
    ReportRecord(out, exc, data, total_days, WorkingDays(total_days, per_week),
                 avg_hours_per_working_day(SumDurations(data),
                                           WorkingDays(total_days, per_week)))

\* generate_report under a configuration: "no_events" when it prints the
\* no-events line and returns, "report" when it prints the report, or the
\* exception raised; for a report, the event_data it collected, the
\* chronological listing, the figures of the time summary, the categorized
\* and uncategorized sections and the titles of the recurrence summary.
generate_report_with(config, evs, start_date, end_date) ==
    IF evs = <<>>
    THEN ReportRecord("no_events", "", <<>>, 0, 0, [exc |-> "", num |-> 0, den |-> 1])
    ELSE IF ReportLoop(evs, 1) # ""
    THEN ReportRecord("", ReportLoop(evs, 1), <<>>, 0, 0, [exc |-> "", num |-> 0, den |-> 1])
    ELSE ReportOf("report", "", ReportData(evs, 1), TotalDays(start_date, end_date),
                  config.working_days_per_week)

\* generate_report under the default configuration
generate_report(evs, start_date, end_date) ==
    generate_report_with([working_days_per_week |-> working_days_per_week],
                         evs, start_date, end_date)

--------------------------------------------------------------------------
(* State machine *)

\* The (id, summary) pairs of the events of a list that have both.
IdTitles(evs) ==
    { [id |-> evs[i].id, summary |-> evs[i].summary] :
        i \in { j \in 1..Len(evs) : "id" \in DOMAIN evs[j] /\ "summary" \in DOMAIN evs[j] } }

EmptyDb == [periods |-> [k \in {} |-> 0], events |-> <<>>]

\* The record of the last operation:
\*   op, key        the operation and the period key it was called for
\*   want           store: the (id, summary) pairs of the input list
\*   ok             the boolean returned (store, is_period_in_database), or
\*                  that the menu flow ran to its end
\*   exc            store: the exception caught; otherwise the exception that
\*                  escaped
\*   written        store: event rows written before commit or the exception
\*   io_fault       store: the injected fault, 0 for none
\*   result         the event list returned
\*   hit, fetched   get_events: the cache answered; the service was called
\*   fetch          get_events: what the service did when called
\*   db_fault       the SELECT that raised
\*   report         what generate_report printed
\*   ok2, mid       second call of a repeated store: its return value, and
\*                  the database between the two calls
NoOp ==
    [op |-> "init", key |-> "", want |-> {}, ok |-> FALSE, exc |-> "",
     written |-> 0, io_fault |-> 0, result |-> <<>>, hit |-> FALSE,
     fetched |-> FALSE, fetch |-> "", db_fault |-> "", report |-> "",
     ok2 |-> FALSE, mid |-> EmptyDb]

\* __init__: no service, the connection opened by initialize_database (or
\* None when sqlite3.connect failed), both tables empty.
Init ==
    /\ db_conn \in BOOLEAN
    /\ service = FALSE
    /\ periods = EmptyDb.periods
    /\ events = EmptyDb.events
    /\ stored = [k \in PeriodKeys |-> {}]
    /\ latest = [i \in {} |-> 0]
    /\ last = NoOp

\* authenticate(): builds the service, or fails and leaves it as it was.
Authenticate(success) ==
    /\ service' = (service \/ success)
    /\ last' = [NoOp EXCEPT !.op = "authenticate", !.ok = success]
    /\ UNCHANGED <<db_conn, periods, events, stored, latest>>

IsPeriodInDatabase(a, db_error) ==
    /\ db_error => db_conn
    /\ last' = [NoOp EXCEPT !.op = "is_period_in_database", !.key = KeyOf(a),
                            !.ok = is_period_in_database(db_conn, periods, KeyOf(a), db_error),
                            !.db_fault = IF db_error THEN "is_period" ELSE ""]
    /\ UNCHANGED <<db_conn, service, periods, events, stored, latest>>

GetEventsFromDatabase(a, db_error) ==
    /\ db_error => db_conn
    /\ last' = [NoOp EXCEPT !.op = "get_events_from_database", !.key = KeyOf(a),
                            !.result = get_events_from_database(db_conn, events, KeyOf(a), db_error),
                            !.db_fault = IF db_error THEN "load" ELSE ""]
    /\ UNCHANGED <<db_conn, service, periods, events, stored, latest>>

\* One call of store_period_in_database; the history `stored` is left to the
\* two actions that use it.
StoreCall(a, evs, io_fault) ==
    \E r \in {store_period_in_database(db_conn, periods, events, a, evs, io_fault)} :
        /\ (io_fault # 0) => db_conn
        /\ periods' = r.db.periods
        /\ events' = r.db.events
        /\ last' = [NoOp EXCEPT !.op = "store_period_in_database", !.key = KeyOf(a),
                                !.want = IdTitles(evs), !.ok = r.ok, !.exc = r.exc,
                                !.written = r.written, !.io_fault = io_fault]
        /\ UNCHANGED <<db_conn, service>>

StorePeriodInDatabase(a, evs, io_fault) ==
    /\ StoreCall(a, evs, io_fault)
    /\ UNCHANGED <<stored, latest>>

\* The same call, with the history of the successful stores kept.
StoreRecorded(a, evs, io_fault) ==
    /\ StoreCall(a, evs, io_fault)
    /\ stored' = IF last'.ok THEN [stored EXCEPT ![KeyOf(a)] = IdTitles(evs)] ELSE stored
    /\ UNCHANGED latest

\* Two calls of store_period_in_database in a row with the same arguments
\* and no fault injected, nothing else running between them.
StorePeriodTwice(a, evs) ==
    \E r1 \in {store_period_in_database(db_conn, periods, events, a, evs, 0)} :
    \E r2 \in {store_period_in_database(db_conn, r1.db.periods, r1.db.events, a, evs, 0)} :
        /\ periods' = r2.db.periods
        /\ events' = r2.db.events
        /\ last' = [NoOp EXCEPT !.op = "store_twice", !.key = KeyOf(a),
                                !.want = IdTitles(evs), !.ok = r1.ok, !.ok2 = r2.ok,
                                !.exc = r2.exc, !.written = r2.written, !.mid = r1.db]
        /\ UNCHANGED <<db_conn, service, stored, latest>>

GetEvents(a, env) ==
    \E g \in {get_events(db_conn, service, periods, events, a, env.fetch, env.db_fault)} :
        /\ last' = [NoOp EXCEPT !.op = "get_events", !.key = KeyOf(a),
                                !.result = g.result, !.exc = g.exc, !.hit = g.hit,
                                !.fetched = g.fetched, !.fetch = env.fetch.kind,
                                !.db_fault = env.db_fault]
        /\ UNCHANGED <<db_conn, service, periods, events, stored, latest>>

\* The arguments main() builds for a menu period.
MenuArgs(period) ==
    [period_type |-> period,
     start_date  |-> get_date_range(period).start_date,
     end_date    |-> get_date_range(period).end_date]

\* main(), choice 17: get_date_range, get_events, store_period_in_database.
\* main() reaches its menu only after authenticate() succeeded. An exception
\* that escapes get_events ends the process; the next run has to construct
\* and authenticate again (service = FALSE), the database file stays.
MenuStorePeriod(period, env, io_fault) ==
    \E g \in {get_events(db_conn, service, periods, events, MenuArgs(period),
                         env.fetch, env.db_fault)} :
    \E r \in {store_period_in_database(db_conn, periods, events, MenuArgs(period),
                                       g.result, io_fault)} :
        /\ service
        /\ (io_fault # 0) => (db_conn /\ g.exc = "")
        /\ periods' = IF g.exc = "" THEN r.db.periods ELSE periods
        /\ events' = IF g.exc = "" THEN r.db.events ELSE events
        /\ service' = (g.exc = "")
        /\ last' = [NoOp EXCEPT !.op = "menu_store", !.key = KeyOf(MenuArgs(period)),
                                !.want = IdTitles(g.result),
                                !.result = g.result,
                                !.ok = (g.exc = "" /\ r.ok),
                                !.exc = IF g.exc = "" THEN r.exc ELSE g.exc,
                                !.written = IF g.exc = "" THEN r.written ELSE 0,
                                !.io_fault = io_fault,
                                !.hit = g.hit, !.fetched = g.fetched,
                                !.fetch = env.fetch.kind, !.db_fault = env.db_fault]
        /\ UNCHANGED <<db_conn, stored, latest>>

\* main(), choices 1 to 15: get_date_range, get_events, generate_report.
MenuReport(period, env) ==
    \E g \in {get_events(db_conn, service, periods, events, MenuArgs(period),
                         env.fetch, env.db_fault)} :
    \E rep \in {generate_report(g.result, MenuArgs(period).start_date,
                                 MenuArgs(period).end_date)} :
        /\ service
        /\ service' = (g.exc = "" /\ rep.exc = "")
        /\ last' = [NoOp EXCEPT !.op = "menu_report", !.key = KeyOf(MenuArgs(period)),
                                !.result = g.result,
                                !.exc = IF g.exc # "" THEN g.exc ELSE rep.exc,
                                !.ok = (g.exc = "" /\ rep.exc = ""),
                                !.hit = g.hit, !.fetched = g.fetched,
                                !.fetch = env.fetch.kind, !.db_fault = env.db_fault,
                                !.report = IF g.exc = "" THEN rep.out ELSE ""]
        /\ UNCHANGED <<db_conn, periods, events, stored, latest>>

\* The program: main() and the calls it makes.
Next ==
    \/ \E success \in BOOLEAN : Authenticate(success)
    \/ \E a \in PeriodArgs, db_error \in BOOLEAN : IsPeriodInDatabase(a, db_error)
    \/ \E a \in PeriodArgs, db_error \in BOOLEAN : GetEventsFromDatabase(a, db_error)
    \/ \E a \in PeriodArgs :
          \E env \in GetEventsEnv(db_conn, service, periods, a) : GetEvents(a, env)
    \/ \E period \in MenuPeriods :
          \E env \in GetEventsEnv(db_conn, service, periods, MenuArgs(period)) :
              \E io_fault \in IoFaults(IF env.fetch.kind = "items" THEN env.fetch.items
                                       ELSE <<>>) :
                  MenuStorePeriod(period, env, io_fault)
    \/ \E period \in MenuPeriods :
          \E env \in GetEventsEnv(db_conn, service, periods, MenuArgs(period)) :
              MenuReport(period, env)

Spec == Init /\ [][Next]_vars

\* The period store called directly.
NextStore ==
    \/ \E a \in PeriodArgs, db_error \in BOOLEAN : IsPeriodInDatabase(a, db_error)
    \/ \E a \in PeriodArgs, db_error \in BOOLEAN : GetEventsFromDatabase(a, db_error)
    \/ \E a \in PeriodArgs, evs \in EventLists :
          \E io_fault \in IoFaults(evs) : StorePeriodInDatabase(a, evs, io_fault)
    \/ \E a \in PeriodArgs, evs \in EventLists : StorePeriodTwice(a, evs)

SpecStore == Init /\ [][NextStore]_vars

\* Any sequence of store calls, with the history of the successful ones.
NextHistory ==
    \E a \in PeriodArgs, evs \in EventLists :
        \E io_fault \in IoFaults(evs) : StoreRecorded(a, evs, io_fault)

SpecHistory == Init /\ [][NextHistory]_vars

\* The events of a list that the store loop skips: no id or no summary.
Skipped(evs) ==
    { j \in 1..Len(evs) : "id" \notin DOMAIN evs[j] \/ "summary" \notin DOMAIN evs[j] }

\* What a list hands to the store for each id it writes: the event of the
\* last position of the list that has the id and a summary, and the key.
Handed(evs, period_key) ==
    LET idx == (1..Len(evs)) \ Skipped(evs)
        pos(i) == CHOOSE j \in idx :
                      /\ evs[j].id = i
                      /\ \A k \in idx : evs[k].id = i => k <= j
    IN  [i \in { evs[j].id : j \in idx } |->
            [summary    |-> evs[pos(i)].summary,
             start      |-> Get(evs[pos(i)], "start", EmptyDict),
             end        |-> Get(evs[pos(i)], "end", EmptyDict),
             period_key |-> period_key,
             stale      |-> FALSE]]

\* The ids that a list holds only in events that the loop skips.
SkippedIds(evs) ==
    { evs[j].id : j \in { k \in Skipped(evs) : "id" \in DOMAIN evs[k] } }
        \ { evs[j].id : j \in (1..Len(evs)) \ Skipped(evs) }

\* One call of store_period_in_database, with the history of what the
\* successful calls were handed for each event id, and whether a later
\* successful call held the id without writing it (stale); `last` also
\* tells how many events of the list the loop skipped and which ids of the
\* list had a row before the call.
StoreUpsert(a, evs, io_fault) ==
    \E r \in {store_period_in_database(db_conn, periods, events, a, evs, io_fault)} :
    \E h \in {Handed(evs, KeyOf(a))} :
        /\ (io_fault # 0) => db_conn
        /\ periods' = r.db.periods
        /\ events' = r.db.events
        /\ latest' = IF r.ok
                     THEN [i \in DOMAIN latest \cup DOMAIN h |->
                              IF i \in DOMAIN h THEN h[i]
                              ELSE IF i \in SkippedIds(evs)
                              THEN [latest[i] EXCEPT !.stale = TRUE]
                              ELSE latest[i]]
                     ELSE latest
        /\ last' = [op |-> "store_period_in_database", key |-> KeyOf(a),
                    want |-> IdTitles(evs), skipped |-> Cardinality(Skipped(evs)),
                    replaced |-> { i \in DOMAIN h :
                                     \E n \in 1..Len(events) : events[n].id = i },
                    ok |-> r.ok, io_fault |-> io_fault]
        /\ UNCHANGED <<db_conn, service, stored>>

\* Any sequence of store calls over events whose ids repeat, no fault
\* injected: a call fails only when its list makes it fail.
NextUpsert ==
    \E a \in PeriodArgs, evs \in UpsertLists : StoreUpsert(a, evs, 0)

SpecUpsert == Init /\ [][NextUpsert]_vars

--------------------------------------------------------------------------
(* The pure functions, called directly *)

\* The state before a direct call: no database, no service, and in `last`
\* the function to call and its arguments.
InitCall(calls) ==
    /\ db_conn = FALSE
    /\ service = FALSE
    /\ periods = EmptyDb.periods
    /\ events = EmptyDb.events
    /\ stored = [k \in PeriodKeys |-> {}]
    /\ latest = [i \in {} |-> 0]
    /\ last \in calls

\* Period types as callers may pass them: those of the menu, and free-form
\* ones made of letters, digits and underscores.
KeyKinds == {"month_1", "month_1_20240101", "year", "year_2024"}

\* Start and end datetimes: days whose month and day digits can be taken
\* for one another, and two times of the same day.
KeyDates ==
    {datetime(NowYear, 1, 1, 0, 0, 0), datetime(NowYear, 1, 1, 23, 59, 59),
     datetime(NowYear, 1, 11, 0, 0, 0), datetime(NowYear, 11, 1, 0, 0, 0)}

KeyTriples == [period_type : KeyKinds, start_date : KeyDates, end_date : KeyDates]

KeyCalls == { [op |-> "call", fn |-> "get_period_key", t1 |-> t1, t2 |-> t2] :
                t1 \in KeyTriples, t2 \in KeyTriples }

InitKey == InitCall(KeyCalls)

\* get_period_key called for two argument triples.
GetPeriodKey ==
    /\ last.op = "call" /\ last.fn = "get_period_key"
    /\ last' = [op |-> "get_period_key", t1 |-> last.t1, t2 |-> last.t2,
                key1 |-> get_period_key(last.t1.period_type, last.t1.start_date,
                                        last.t1.end_date),
                key2 |-> get_period_key(last.t2.period_type, last.t2.start_date,
                                        last.t2.end_date)]
    /\ UNCHANGED <<db_conn, service, periods, events, stored, latest>>

NextKey == GetPeriodKey

SpecKey == InitKey /\ [][NextKey]_vars

\* The values of event['start'] and event['end']: a date, an instant
\* written with a UTC offset or with Z, or a dict with neither.
SpanDates == {"2023-12-31", "2024-01-01", "2024-01-02", "2024-01-03"}

SpanInstants ==
    {"2024-01-01T12:00:00-03:00", "2024-01-01T12:30:00-03:00",
     "2024-01-01T13:00:00-03:00", "2024-01-01T16:00:00+01:00",
     "2024-01-01T15:00:00Z", "2024-01-01T23:30:00-03:00"}

SpanValues ==
    { [date |-> d] : d \in SpanDates } \cup { [dateTime |-> t] : t \in SpanInstants }
        \cup {EmptyDict}

\* Events with any start and end of SpanValues, or without one or both.
DurationEvents ==
    { [start |-> st, end |-> en] : st \in SpanValues, en \in SpanValues }
        \cup { [start |-> st] : st \in SpanValues }
        \cup { [end |-> en] : en \in SpanValues }
        \cup {EmptyDict}

DurationCalls ==
    { [op |-> "call", fn |-> "calculate_event_duration", event |-> ev] :
        ev \in DurationEvents }

InitDuration == InitCall(DurationCalls)

\* calculate_event_duration called for one event.
CalculateEventDuration ==
    /\ last.op = "call" /\ last.fn = "calculate_event_duration"
    /\ last' = [op |-> "calculate_event_duration", event |-> last.event,
                exc |-> calculate_event_duration(last.event).exc,
                value |-> calculate_event_duration(last.event).value]
    /\ UNCHANGED <<db_conn, service, periods, events, stored, latest>>

NextDuration == CalculateEventDuration

SpecDuration == InitDuration /\ [][NextDuration]_vars

\* The characters of event titles: the tag sign, two upper-case letters, a
\* lower-case letter, the two separators of the tag and a line feed.
TitleChars == {"@", "E", "N", "g", " ", "_", "\n"}

Titles == UNION { [1..n -> TitleChars] : n \in 0..MaxTitleLen }

\* A timed event of one hour with the given title.
EvTitled(title) ==
    [id |-> "1", summary |-> title,
     start |-> [dateTime |-> "2024-01-01T12:00:00-03:00"],
     end   |-> [dateTime |-> "2024-01-01T13:00:00-03:00"]]

\* generate_report called for one event of any title, over January.
TitleCalls ==
    { [op |-> "call", fn |-> "generate_report", events |-> <<EvTitled(t)>>,
       start_date |-> get_date_range("month_1").start_date,
       end_date   |-> get_date_range("month_1").end_date] : t \in Titles }

InitCategory == InitCall(TitleCalls)

\* generate_report called directly; an exception it raises reaches the
\* caller.
GenerateReport ==
    /\ last.op = "call" /\ last.fn = "generate_report"
    /\ last' = [op |-> "generate_report", events |-> last.events,
                start_date |-> last.start_date, end_date |-> last.end_date,
                rep |-> generate_report(last.events, last.start_date, last.end_date)]
    /\ UNCHANGED <<db_conn, service, periods, events, stored, latest>>

NextReport == GenerateReport

SpecCategory == InitCategory /\ [][NextReport]_vars

\* An event of half an hour whose title carries a second tag after the
\* leading one.
EvDual ==
    [id |-> "4", summary |-> <<"@", "E", "N", "G", " ", "@", "O">>,
     start |-> [dateTime |-> "2024-01-01T12:30:00-03:00"],
     end   |-> [dateTime |-> "2024-01-01T13:00:00-03:00"]]

\* An event whose start and end hold neither a date nor an instant.
EvEmptySpan == [id |-> "5", summary |-> <<"E", "s">>, start |-> EmptyDict, end |-> EmptyDict]

\* The events handed to generate_report.
ReportPool == {EvStandup, EvLunch, EvDual, EvNoSummary, EvNoStart, EvEmptySpan}

ReportLists == UNION { [1..n -> ReportPool] : n \in 0..MaxReportEvents }

\* The report periods: the single day 2024-01-01, and January.
ReportPeriods ==
    { [start_date |-> datetime(NowYear, 1, 1, 0, 0, 0),
       end_date   |-> datetime(NowYear, 1, 1, 23, 59, 59)],
      [start_date |-> get_date_range("month_1").start_date,
       end_date   |-> get_date_range("month_1").end_date] }

ReportCalls ==
    { [op |-> "call", fn |-> "generate_report", events |-> evs,
       start_date |-> p.start_date, end_date |-> p.end_date] :
        evs \in ReportLists, p \in ReportPeriods }

InitReport == InitCall(ReportCalls)

SpecReport == InitReport /\ [][NextReport]_vars

\* The all-day event of the day before EvStandup, with the same title.
EvStandupEve ==
    [id |-> "6", summary |-> <<"@", "E", "N", "G", " ", "S">>,
     start |-> [date |-> "2023-12-31"], end |-> [date |-> "2024-01-01"]]

\* An untagged all-day event of the day after.
EvTrip ==
    [id |-> "7", summary |-> <<"T", "r">>,
     start |-> [date |-> "2024-01-02"], end |-> [date |-> "2024-01-03"]]

\* A timed event of 25 hours in a second category.
EvAdmin ==
    [id |-> "8", summary |-> <<"@", "A", "D", "M", " ", "R">>,
     start |-> [dateTime |-> "2024-01-01T12:00:00-03:00"],
     end   |-> [dateTime |-> "2024-01-02T13:00:00-03:00"]]

\* An all-day event of the second category, on the day of EvStandup.
EvAudit ==
    [id |-> "9", summary |-> <<"@", "A", "D", "M", "_", "A">>,
     start |-> [date |-> "2024-01-01"], end |-> [date |-> "2024-01-02"]]

\* The events of the listings: two categories and untagged events, on three
\* days, of durations from half an hour to 25 hours.
ListingPool == {EvStandup, EvStandupEve, EvLunch, EvTrip, EvDual, EvAdmin, EvAudit}

ListingLists == UNION { [1..n -> ListingPool] : n \in 0..MaxListed }

\* generate_report called for a list of well-formed events, over January.
ListingCalls ==
    { [op |-> "call", fn |-> "generate_report", events |-> evs,
       start_date |-> get_date_range("month_1").start_date,
       end_date   |-> get_date_range("month_1").end_date] : evs \in ListingLists }

InitListing == InitCall(ListingCalls)

SpecListing == InitListing /\ [][NextReport]_vars

\* The values of working_days_per_week in the configuration file
PerWeek == 0..MaxPerWeek

\* Report periods that start with 2024-01-01: one to MaxStatsDays days, the
\* month and the year, each up to the last second of its last day
StatsPeriods ==
    { [start_date |-> datetime(NowYear, 1, 1, 0, 0, 0),
       end_date   |-> datetime(NowYear, 1, d, 23, 59, 59)] : d \in 1..MaxStatsDays }
        \cup { [start_date |-> get_date_range(p).start_date,
                end_date   |-> get_date_range(p).end_date] : p \in MenuPeriods }

\* The event lists of the statistics: none, or up to two events of one and
\* of eight hours
StatsLists == UNION { [1..n -> {EvLunch, EvStandup}] : n \in 0..2 }

StatsCalls ==
    { [op |-> "call", fn |-> "generate_report",
       config |-> [working_days_per_week |-> w], events |-> evs,
       start_date |-> p.start_date, end_date |-> p.end_date] :
        w \in PerWeek, evs \in StatsLists, p \in StatsPeriods }

InitStats == InitCall(StatsCalls)

\* generate_report called on an object whose configuration was loaded from
\* the configuration file.
GenerateReportConfigured ==
    /\ last.op = "call" /\ last.fn = "generate_report"
    /\ last' = [op |-> "generate_report", config |-> last.config,
                events |-> last.events,
                start_date |-> last.start_date, end_date |-> last.end_date,
                rep |-> generate_report_with(last.config, last.events,
                                             last.start_date, last.end_date)]
    /\ UNCHANGED <<db_conn, service, periods, events, stored, latest>>

NextStats == GenerateReportConfigured

SpecStats == InitStats /\ [][NextStats]_vars

\* The event lists fetched for a period and handed to the store: events as
\* the service returns them, with a time span, one of them without title;
\* an event that is on two of the configured calendars comes twice.
CachePool == {EvStandup, EvLunch, EvNoSummary}

CacheLists == UNION { [1..n -> CachePool] : n \in 0..MaxEvents }

\* store_period_in_database called with a fetched list, no fault injected;
\* `last` keeps the list.
CacheStore(a, evs) ==
    \E r \in {store_period_in_database(db_conn, periods, events, a, evs, 0)} :
        /\ periods' = r.db.periods
        /\ events' = r.db.events
        /\ last' = [op |-> "store_period_in_database", key |-> KeyOf(a),
                    list |-> evs, ok |-> r.ok, result |-> <<>>]
        /\ UNCHANGED <<db_conn, service, stored, latest>>

\* get_events_from_database called for the key of the store that has just
\* succeeded.
CacheLoad ==
    /\ last.op = "store_period_in_database" /\ last.ok
    /\ last' = [op |-> "get_events_from_database", key |-> last.key,
                list |-> last.list, ok |-> TRUE,
                result |-> get_events_from_database(db_conn, events, last.key, FALSE)]
    /\ UNCHANGED <<db_conn, service, periods, events, stored, latest>>

NextCache ==
    \/ \E a \in PeriodArgs, evs \in CacheLists : CacheStore(a, evs)
    \/ CacheLoad

SpecCache == Init /\ [][NextCache]_vars

\* store_period_in_database called for January with one event of any title.
ColumnCalls ==
    { [op |-> "call", fn |-> "store_period_in_database",
       period_type |-> "month_1",
       start_date  |-> get_date_range("month_1").start_date,
       end_date    |-> get_date_range("month_1").end_date,
       events      |-> <<EvTitled(t)>>] : t \in Titles }

\* The state before the call: the database is open and empty.
InitColumn ==
    /\ db_conn = TRUE
    /\ service = FALSE
    /\ periods = EmptyDb.periods
    /\ events = EmptyDb.events
    /\ stored = [k \in PeriodKeys |-> {}]
    /\ latest = [i \in {} |-> 0]
    /\ last \in ColumnCalls

\* store_period_in_database called directly, no fault injected.
StoreTitled ==
    /\ last.op = "call" /\ last.fn = "store_period_in_database"
    /\ \E r \in {store_period_in_database(db_conn, periods, events,
                       [period_type |-> last.period_type,
                        start_date |-> last.start_date, end_date |-> last.end_date],
                       last.events, 0)} :
          /\ periods' = r.db.periods
          /\ events' = r.db.events
          /\ last' = [op |-> "store_period_in_database",
                      key |-> get_period_key(last.period_type, last.start_date,
                                             last.end_date),
                      events |-> last.events, ok |-> r.ok, exc |-> r.exc]
    /\ UNCHANGED <<db_conn, service, stored, latest>>

NextColumn == StoreTitled

SpecColumn == InitColumn /\ [][NextColumn]_vars

--------------------------------------------------------------------------
(* Properties *)

\* What a caller observes of a period key: the two reads, with no fault.
IsComplete(k) == is_period_in_database(db_conn, periods, k, FALSE)

Load(k) == get_events_from_database(db_conn, events, k, FALSE)

LoadedPairs(k) == { [id |-> Load(k)[i].id, summary |-> Load(k)[i].summary] : i \in 1..Len(Load(k)) }

\* C1: in every state reached by store calls, every period key that
\* is_period_in_database reports complete returns, from
\* get_events_from_database, every event (id and title) handed to the most
\* recent successful store of that key.
C1_CompleteReturnsAllStored ==
    \A k \in PeriodKeys : IsComplete(k) => stored[k] \subseteq LoadedPairs(k)

\* A store call in which a fault was injected before or at commit.
FaultedStore == last.op = "store_period_in_database" /\ last.io_fault # 0

\* A faulted store call that had written the period row and some but not all
\* of the event rows when the fault struck.
PartialStore ==
    FaultedStore /\ last.written >= 1 /\ last.written < Cardinality(last.want)

\* C2 as stated: after a store that a fault made fail part-way, the key is
\* reported not complete and get_events_from_database returns what it
\* returned before.
C2_FailedStoreLeavesIncomplete ==
    [][PartialStore' =>
          /\ ~is_period_in_database(db_conn', periods', last'.key, FALSE)
          /\ get_events_from_database(db_conn', events', last'.key, FALSE)
                = Load(last'.key)]_vars

\* C2 as amended: after a store that a fault made fail, both
\* is_period_in_database and get_events_from_database return for the key
\* exactly what they returned before the call.
C2_FailedStoreRestores ==
    [][FaultedStore' =>
          /\ ~last'.ok
          /\ is_period_in_database(db_conn', periods', last'.key, FALSE)
                = IsComplete(last'.key)
          /\ get_events_from_database(db_conn', events', last'.key, FALSE)
                = Load(last'.key)]_vars

\* C2 witness: the INSERT of the second of two events raised after the
\* period row and the first event row were written, for a key that was
\* complete with events before the call.
C2_Witness ==
    /\ PartialStore
    /\ last.exc = "sqlite3.Error"
    /\ ~last.ok
    /\ IsComplete(last.key)
    /\ Load(last.key) # <<>>

\* C3: in the flow of menu choice 17 a period is not complete after the
\* fetch raised an error.
C3_NoCompleteAfterFetchError ==
    (last.op = "menu_store" /\ last.fetch = "HttpError") => ~IsComplete(last.key)

\* C4: after a get_events that succeeded (the cache answered, or the fetch
\* returned its items) the period is complete in the database.
C4_MissIsPersisted ==
    (last.op = "get_events" /\ last.exc = "" /\ (last.hit \/ last.fetch = "items"))
        => IsComplete(last.key)

\* C5: a get_events for a key that is_period_in_database reports complete
\* returns what get_events_from_database returns and does not call the
\* calendar service, authenticated or not.
C5_HitServedFromDatabase ==
    (last.op = "get_events" /\ IsComplete(last.key) /\ last.db_fault # "is_period")
        => /\ ~last.fetched
           /\ last.result =
                get_events_from_database(db_conn, events, last.key, last.db_fault = "load")

\* C5 witness: a hit answered with stored events while not authenticated.
C5_Witness ==
    /\ last.op = "get_events"
    /\ IsComplete(last.key)
    /\ ~service
    /\ last.db_fault = ""
    /\ last.result # <<>>

C7_SuccessMeansCompleteAndStored ==
    (last.op = "store_period_in_database" /\ last.ok) =>
        /\ last.key \in DOMAIN periods
        /\ periods[last.key].is_complete = 1
        /\ \A w \in last.want :
              \E i \in 1..Len(events) :
                  /\ events[i].id = w.id
                  /\ events[i].period_key = last.key
                  /\ [id |-> events[i].id, summary |-> events[i].summary] \in last.want

\* C7 witness: a successful store of two events that both have id and title.
C7_Witness ==
    /\ last.op = "store_period_in_database"
    /\ last.ok
    /\ Cardinality(last.want) = 2
    /\ last.written = 2

\* C8: when the fetch fails, get_events returns something other than what
\* it returns for a fetch that found no events, and the report printed for
\* it differs from the no-events report.
C8_FetchFailureDistinct ==
    /\ (last.op = "get_events" /\ last.fetch = "HttpError")
          => \A a \in PeriodArgs :
                KeyOf(a) = last.key =>
                    last.result # get_events(db_conn, service, periods, events, a,
                                             [kind |-> "items", items |-> <<>>],
                                             last.db_fault).result
    /\ (last.op = "menu_report" /\ last.fetch = "HttpError")
          => \A a \in PeriodArgs :
                last.report # generate_report(<<>>, a.start_date, a.end_date).out

\* C9: a read that hit a persistence error, or an uninitialised database,
\* returns something other than the normal results "not complete" (False)
\* and "no events stored" (the empty list).
C9_DbErrorDistinct ==
    /\ (last.op = "is_period_in_database" /\ (last.db_fault # "" \/ ~db_conn))
          => last.ok # FALSE
    /\ (last.op = "get_events_from_database" /\ (last.db_fault # "" \/ ~db_conn))
          => last.result # <<>>

\* C10: whatever events the list holds, a store on an open database with no
\* fault injected succeeds, the period becomes complete, and every event of
\* the list that was not dropped is stored.
C10_MalformedEventsDropped ==
    (last.op = "store_period_in_database" /\ db_conn /\ last.io_fault = 0) =>
        /\ last.ok
        /\ IsComplete(last.key)

\* C11: a store on an open database, with no fault injected, of a list that
\* holds events without id or without title succeeds, returns from
\* get_events_from_database none of those events, and stores every other
\* event of the list.
C11_SkippedWithoutError ==
    (last.op = "store_period_in_database" /\ db_conn /\ last.io_fault = 0
        /\ last.skipped > 0)
        => /\ last.ok
           /\ \A i \in 1..Len(Load(last.key)) : Load(last.key)[i].id \in DOMAIN latest
           /\ \A w \in last.want : \E i \in 1..Len(events) : events[i].id = w.id

\* The day of a datetime, and the eight digits YYYYMMDD that stand for it.
DayOf(dt) == <<dt.year, dt.month, dt.day>>

YYYYMMDD(dt) ==
    CASE DayOf(dt) = <<2024, 1, 1>> -> "20240101"
      [] DayOf(dt) = <<2024, 1, 11>> -> "20240111"
      [] DayOf(dt) = <<2024, 11, 1>> -> "20241101"

SameTriple(t1, t2) ==
    /\ t1.period_type = t2.period_type
    /\ DayOf(t1.start_date) = DayOf(t2.start_date)
    /\ DayOf(t1.end_date) = DayOf(t2.end_date)

\* C12: get_period_key gives two argument triples the same string exactly
\* when they have the same kind, the same start day and the same end day
\* (whatever the time of day), also for kinds that contain underscores and
\* digits, and the string is kind_YYYYMMDD_YYYYMMDD.
C12_KeyInjective ==
    last.op = "get_period_key" =>
        /\ (last.key1 = last.key2) <=> SameTriple(last.t1, last.t2)
        /\ last.key1 = last.t1.period_type \o "_" \o YYYYMMDD(last.t1.start_date)
                           \o "_" \o YYYYMMDD(last.t1.end_date)

\* C12 witness: two kinds with underscores and digits, one a prefix of the
\* other's key, and days that differ only in where the digit 1 stands.
C12_Witness ==
    /\ last.op = "get_period_key"
    /\ last.t1.period_type = "month_1"
    /\ last.t2.period_type = "month_1_20240101"
    /\ DayOf(last.t1.start_date) = <<2024, 1, 11>>
    /\ DayOf(last.t2.start_date) = <<2024, 11, 1>>
    /\ last.key1 # last.key2

\* A step that is a call of one of the two reads of the store.
ReadStep ==
    last'.op \in {"is_period_in_database", "get_events_from_database"}

\* C13: a call of is_period_in_database or get_events_from_database leaves
\* the periods and events tables as they were, in every state, and
\* get_events_from_database returns the empty sequence for a key that no
\* store ever wrote (no other operation writes a periods row, and none
\* deletes one).
C13_ReadsLeaveStore ==
    [][ReadStep =>
          /\ periods' = periods
          /\ events' = events
          /\ (last'.op = "get_events_from_database" /\ last'.key \notin DOMAIN periods)
                => last'.result = <<>>]_vars

\* C13 witness: get_events_from_database was called for a key never stored
\* while the events table holds rows of another key.
C13_Witness ==
    /\ last.op = "get_events_from_database"
    /\ db_conn
    /\ last.db_fault = ""
    /\ last.key \notin DOMAIN periods
    /\ events # <<>>
    /\ last.result = <<>>

\* The reference for durations: the day number of a date, and the absolute
\* instant of a dateTime in seconds of UTC, both counted from 2024-01-01.
RefDay(d) ==
    CASE d = "2023-12-31" -> -1
      [] d = "2024-01-01" -> 0
      [] d = "2024-01-02" -> 1
      [] d = "2024-01-03" -> 2

RefInstant(t) ==
    CASE t = "2024-01-01T12:00:00-03:00" -> 15 * 3600
      [] t = "2024-01-01T12:30:00-03:00" -> 15 * 3600 + 30 * 60
      [] t = "2024-01-01T13:00:00-03:00" -> 16 * 3600
      [] t = "2024-01-01T16:00:00+01:00" -> 15 * 3600
      [] t = "2024-01-01T15:00:00Z" -> 15 * 3600
      [] t = "2024-01-01T23:30:00-03:00" -> 24 * 3600 + 2 * 3600 + 30 * 60

HasBoth(ev, k) ==
    /\ "start" \in DOMAIN ev /\ "end" \in DOMAIN ev
    /\ k \in DOMAIN ev.start /\ k \in DOMAIN ev.end

\* The reference duration in seconds (hours * 3600).
RefDuration(ev) ==
    IF HasBoth(ev, "date")
    THEN (RefDay(ev.end.date) - RefDay(ev.start.date)) * all_day_event_hours * 3600
    ELSE IF HasBoth(ev, "dateTime")
    THEN RefInstant(ev.end.dateTime) - RefInstant(ev.start.dateTime)
    ELSE 0

\* C14: calculate_event_duration raises nothing and returns the reference
\* duration: whole days times all_day_event_hours for an all-day event
\* (all_day_event_hours for one day, a negative value when the end is before
\* the start), the difference of the two absolute instants for a timed event
\* whatever the offsets they are written in, and 0 for an event with neither
\* representation.
C14_DurationIsReference ==
    last.op = "calculate_event_duration" =>
        /\ last.exc = ""
        /\ last.value = RefDuration(last.event)
        /\ (HasBoth(last.event, "date") /\ last.event.start.date = "2024-01-01"
               /\ last.event.end.date = "2024-01-02")
              => last.value = all_day_event_hours * 3600
        /\ (HasBoth(last.event, "date") /\ last.event.start.date = "2024-01-02"
               /\ last.event.end.date = "2023-12-31")
              => last.value = -2 * all_day_event_hours * 3600
        /\ (~HasBoth(last.event, "date") /\ ~HasBoth(last.event, "dateTime"))
              => last.value = 0

\* C14 witness: a timed event of one hour whose start is written at +01:00
\* and whose end at -03:00, so that the wall-clock end is before the
\* wall-clock start.
C14_Witness ==
    /\ last.op = "calculate_event_duration"
    /\ HasBoth(last.event, "dateTime")
    /\ last.event.start.dateTime = "2024-01-01T16:00:00+01:00"
    /\ last.event.end.dateTime = "2024-01-01T13:00:00-03:00"
    /\ last.value = 3600

\* A title that starts with @, three upper-case letters and a space or an
\* underscore.
Tagged(t) ==
    /\ Len(t) >= 5
    /\ t[1] = "@"
    /\ {t[2], t[3], t[4]} \subseteq {"E", "N"}
    /\ t[5] \in {" ", "_"}

\* A report of one titled event that was categorised.
TitleReport ==
    /\ last.op = "generate_report"
    /\ Len(last.events) = 1
    /\ last.rep.exc = ""
    /\ Len(last.rep.data) = 1

\* C15 as stated: for every title the report gives category = the three
\* letters and subcategory = the remainder of the title when the title is
\* tagged, and otherwise category "Other" and subcategory = the title, a
\* title with more than one @ included.
C15_CategoryAndRemainder ==
    (last.op = "generate_report" /\ Len(last.events) = 1) =>
        /\ TitleReport
        /\ LET t == last.events[1].summary
                d == last.rep.data[1]
            IN  IF Tagged(t)
                THEN /\ d.category = t[2] \o t[3] \o t[4]
                     /\ d.subcategory = SubSeq(t, 6, Len(t))
                ELSE /\ d.category = "Other"
                     /\ d.subcategory = t

\* C15 as amended: the subcategory of a tagged title is the remainder of
\* the title up to its first line feed (the whole remainder when it has no
\* line feed); the rest as stated.
C15_CategoryAndFirstLine ==
    (last.op = "generate_report" /\ Len(last.events) = 1) =>
        /\ TitleReport
        /\ LET t == last.events[1].summary
                d == last.rep.data[1]
            IN  IF Tagged(t)
                THEN /\ d.category = t[2] \o t[3] \o t[4]
                     /\ \E n \in 0..(Len(t) - 5) :
                           /\ d.subcategory = SubSeq(t, 6, 5 + n)
                           /\ \A i \in 6..(5 + n) : t[i] # "\n"
                           /\ (5 + n = Len(t)) \/ t[6 + n] = "\n"
                ELSE /\ d.category = "Other"
                     /\ d.subcategory = t

\* C15 witness: a title with two @, tagged ENE with an underscore, is
\* reported with category ENE and its remainder as subcategory.
C15_Witness ==
    /\ TitleReport
    /\ last.events[1].summary = <<"@", "E", "N", "E", "_", "@">>
    /\ last.rep.data[1].category = "ENE"
    /\ last.rep.data[1].subcategory = <<"@">>

\* An event with neither time-span representation: no start, or a start
\* that holds neither a date nor an instant.
Spanless(ev) ==
    \/ "start" \notin DOMAIN ev
    \/ "date" \notin DOMAIN ev.start /\ "dateTime" \notin DOMAIN ev.start

\* C16: generate_report over a list that holds an event with neither
\* time-span representation raises nothing, and reports exactly what it
\* reports for the list without the events that have neither.
C16_SpanlessSkipped ==
    (last.op = "generate_report"
        /\ \E i \in 1..Len(last.events) : Spanless(last.events[i]))
        => /\ last.rep.exc = ""
           /\ last.rep.data =
                 generate_report(SelectSeq(last.events, LAMBDA ev : ~Spanless(ev)),
                                 last.start_date, last.end_date).data

\* The events of a list that have the title t, and the sum of their
\* reference durations.
WithTitle(evs, t) ==
    SelectSeq(evs, LAMBDA ev : "summary" \in DOMAIN ev /\ ev.summary = t)

RECURSIVE RefTotal(_)
RefTotal(evs) ==
    IF evs = <<>> THEN 0 ELSE RefDuration(Head(evs)) + RefTotal(Tail(evs))

\* The events of a list whose title starts with the tag @ENG and a space.
TaggedENG(evs) ==
    SelectSeq(evs, LAMBDA ev : /\ "summary" \in DOMAIN ev
                               /\ Len(ev.summary) >= 5
                               /\ SubSeq(ev.summary, 1, 5) = <<"@", "E", "N", "G", " ">>)

\* C17: in every report, a title with more than one @ that starts with the
\* tag ENG has no line in the recurrence summary, while the categorized
\* view lists under ENG one entry for each event of that title, and the
\* total of ENG is the sum of the durations of all events tagged ENG, those
\* of that title included.
C17_DualTagListedNotRecurring ==
    (last.op = "generate_report" /\ last.rep.out = "report") =>
        \A i \in 1..Len(TaggedENG(last.events)) :
            LET t == TaggedENG(last.events)[i].summary
            IN  CountAt(t) > 1 =>
                  /\ t \notin last.rep.recurring
                  /\ "ENG" \in DOMAIN last.rep.categorized
                  /\ Len(SelectSeq(last.rep.categorized["ENG"].events,
                                   LAMBDA d : d.summary = t))
                        = Len(WithTitle(last.events, t))
                  /\ last.rep.categorized["ENG"].total = RefTotal(TaggedENG(last.events))

\* C17 witness: a report over two events titled "@ENG @O" of half an hour
\* each and the all-day event "@ENG S": ENG totals nine hours.
C17_Witness ==
    /\ last.op = "generate_report"
    /\ last.rep.out = "report"
    /\ last.events = <<EvDual, EvStandup, EvDual>>
    /\ last.rep.categorized["ENG"].total = 9 * 3600
    /\ Len(last.rep.categorized["ENG"].events) = 3

\* A direct call of generate_report for the all-day event "@ENG S" of
\* 2024-01-01 to 2024-01-02 and the timed event "Lu" of 12:00 to 13:00, in
\* either order, over 2024-01-01 00:00:00 to 2024-01-01 23:59:59.
ScenarioReport ==
    /\ last.op = "generate_report"
    /\ last.events \in {<<EvStandup, EvLunch>>, <<EvLunch, EvStandup>>}
    /\ last.start_date = datetime(2024, 1, 1, 0, 0, 0)
    /\ last.end_date = datetime(2024, 1, 1, 23, 59, 59)

\* C18: for the two events of the scenario with all_day_event_hours = 8 and
\* the period of one day, generate_report gives category ENG a total of 8
\* hours with 1 event, the uncategorized group a total of 1 hour, and total
\* days in period = 1.
C18_Scenario ==
    ScenarioReport =>
        /\ all_day_event_hours = 8
        /\ last.rep.out = "report"
        /\ DOMAIN last.rep.categorized = {"ENG"}
        /\ last.rep.categorized["ENG"].total = 8 * 3600
        /\ Len(last.rep.categorized["ENG"].events) = 1
        /\ last.rep.uncategorized.total = 1 * 3600
        /\ Len(last.rep.uncategorized.events) = 1
        /\ last.rep.total_days = 1

\* C18 witness: the report of the scenario was printed, events in the
\* order given.
C18_Witness ==
    /\ ScenarioReport
    /\ last.events = <<EvStandup, EvLunch>>
    /\ last.rep.out = "report"
    /\ last.rep.total_days = 1

\* C19: in every state reached by store calls, failed ones included, every
\* row of the periods table has is_complete = 1 and is no partial period:
\* the events table holds, under the row's key, every event of the most
\* recent successful store of that key.
C19_NoPartialPeriod ==
    \A k \in DOMAIN periods :
        /\ periods[k].is_complete = 1
        /\ \A w \in stored[k] :
              \E i \in 1..Len(events) :
                  /\ events[i].id = w.id
                  /\ events[i].period_key = k

\* The row of each id is as the most recent successful store that wrote
\* the id was handed it: title, time span, duration and period key.
RowsAsHanded ==
    /\ \A i, j \in 1..Len(events) : events[i].id = events[j].id => i = j
    /\ { events[i].id : i \in 1..Len(events) } = DOMAIN latest
    /\ \A i \in 1..Len(events) :
          LET row == events[i]
              h   == latest[row.id]
              k   == IF row.is_all_day = 1 THEN "date" ELSE "dateTime"
          IN  /\ row.summary = h.summary
              /\ row.period_key = h.period_key
              /\ HasBoth(h, k)
              /\ row.is_all_day = 1 <=> HasBoth(h, "date")
              /\ row.start_time = h.start[k]
              /\ row.end_time = h.end[k]
              /\ row.duration = RefDuration(h)

\* C20 as stated: after any sequence of store calls the events table holds
\* at most one row per event id, and that row carries the title, the time
\* span, the duration and the period key of the most recent successful
\* store whose list held that id: no later successful store held the id
\* and left the row as it was.
C20_LastStoreWithIdWins ==
    /\ RowsAsHanded
    /\ \A i \in DOMAIN latest : ~latest[i].stale

\* C20 as amended: at most one row per event id, a row for exactly the ids
\* that successful stores wrote, and each row carries the title, the time
\* span, the duration and the period key of the most recent successful
\* store whose list held an event of that id that has a title.
C20_UpsertLastWriteWins ==
    RowsAsHanded

\* C20 witness: event "2" had a row, written by a store of the other key,
\* when a successful store wrote its renamed and moved version; the one
\* row of id "2" is the new version under the new key.
C20_Witness ==
    /\ last.op = "store_period_in_database"
    /\ last.ok
    /\ "2" \in last.replaced
    /\ last.want = {[id |-> "2", summary |-> <<"L", "2">>]}
    /\ Cardinality(DOMAIN periods) = 2
    /\ \E i \in 1..Len(events) :
          /\ events[i].id = "2"
          /\ events[i].summary = <<"L", "2">>
          /\ events[i].start_time = "2024-01-01T12:30:00-03:00"
          /\ events[i].period_key = last.key

\* The report of a direct generate_report call that printed one.
Printed == last.op = "generate_report" /\ last.rep.out = "report"

\* The bijections of 1..n
Bijections(n) ==
    { f \in [1..n -> 1..n] : \A i, j \in 1..n : f[i] = f[j] => i = j }

\* Whether `listing` holds the elements of `data` in rising date order, with
\* the elements of one date in the order of their groups (group[i] is the
\* group of data[i]) and, within a group, of their places in data
ListedByDate(listing, data, group) ==
    /\ Len(listing) = Len(data)
    /\ \E f \in Bijections(Len(data)) :
          /\ \A n \in 1..Len(data) : listing[n] = data[f[n]]
          /\ \A m, n \in 1..Len(data) :
                m < n => \/ DateKey(listing[m].date) < DateKey(listing[n].date)
                         \/ /\ listing[m].date = listing[n].date
                            /\ \/ group[f[m]] < group[f[n]]
                               \/ /\ group[f[m]] = group[f[n]]
                                  /\ f[m] < f[n]

\* Where the events of data[i]'s category stand in the concatenation: at the
\* first place of the category in the input, the untagged ones after all
FirstOfCategory(data, i) ==
    IF data[i].category = "Other" THEN Len(data) + 1
    ELSE CHOOSE j \in 1..Len(data) :
            /\ data[j].category = data[i].category
            /\ \A k \in 1..(j - 1) : data[k].category # data[i].category

\* C21 (as stated): the chronological listing holds every event that has a
\* title, in rising date order, and the events of one date stand in the
\* order of the input list.
C21_ListingInInputOrder ==
    Printed => ListedByDate(last.rep.all_events, last.rep.data,
                            [i \in 1..Len(last.rep.data) |-> 0])

\* C21 (amended): the chronological listing holds every event that has a
\* title, in rising date order, and the events of one date stand in the
\* order of the concatenation: the categories in the order of their first
\* event in the input, then the untagged events, and within one category
\* (or the untagged events) the order of the input list.
C21_ListingInConcatenationOrder ==
    Printed =>
        ListedByDate(last.rep.all_events, last.rep.data,
                     [i \in 1..Len(last.rep.data) |-> FirstOfCategory(last.rep.data, i)])

\* An untagged event, a tagged event of the same day and a tagged event of
\* the day before were listed: the last first, the untagged one last.
C21_Witness ==
    /\ Printed
    /\ last.events = <<EvLunch, EvStandup, EvStandupEve>>
    /\ [n \in 1..3 |-> last.rep.all_events[n].date]
          = <<"2023-12-31", "2024-01-01", "2024-01-01">>
    /\ last.rep.all_events[2].category = "ENG"
    /\ last.rep.all_events[3].category = "Other"

\* The sum of the durations of the elements of data at the places in I
RECURSIVE DurationAt(_, _)
DurationAt(data, I) ==
    IF I = {} THEN 0
    ELSE LET i == CHOOSE x \in I : TRUE
         IN  data[i].duration + DurationAt(data, I \ {i})

\* The places of the events of a category, and of one of its subcategories
PlacesOf(data, category) == { i \in 1..Len(data) : data[i].category = category }

PlacesOfSub(data, category, subcategory) ==
    { i \in PlacesOf(data, category) : data[i].subcategory = subcategory }

\* Whether the tables of one category show its subcategories, each once, by
\* falling total, and under each its events by rising date
SubcategoriesInOrder(data, table) ==
    /\ { table.groups[n].subcategory : n \in 1..Len(table.groups) }
          = { data[i].subcategory : i \in PlacesOf(data, table.category) }
    /\ \A m, n \in 1..Len(table.groups) :
          m < n => /\ table.groups[m].subcategory # table.groups[n].subcategory
                   /\ DurationAt(data, PlacesOfSub(data, table.category,
                                                   table.groups[m].subcategory))
                        >= DurationAt(data, PlacesOfSub(data, table.category,
                                                       table.groups[n].subcategory))
    /\ \A n \in 1..Len(table.groups) :
          /\ Len(table.groups[n].events)
                = Cardinality(PlacesOfSub(data, table.category, table.groups[n].subcategory))
          /\ \A k \in 1..Len(table.groups[n].events) :
                /\ table.groups[n].events[k].category = table.category
                /\ table.groups[n].events[k].subcategory = table.groups[n].subcategory
          /\ \A k, l \in 1..Len(table.groups[n].events) :
                k < l => DateKey(table.groups[n].events[k].date)
                           <= DateKey(table.groups[n].events[l].date)

\* C22: in the categorized view the categories that have events stand, each
\* once, by falling summed duration, categories of equal total in the order
\* of their first event in the input; under each category its subcategories
\* stand by falling summed duration, and under each subcategory its events
\* by rising date.
C22_CategorizedViewOrder ==
    Printed =>
        LET data   == last.rep.data
            tables == last.rep.categories
        IN  /\ { tables[n].category : n \in 1..Len(tables) }
                  = { data[i].category : i \in 1..Len(data) } \ {"Other"}
            /\ \A m, n \in 1..Len(tables) :
                  m < n =>
                    /\ tables[m].category # tables[n].category
                    /\ \/ DurationAt(data, PlacesOf(data, tables[m].category))
                             > DurationAt(data, PlacesOf(data, tables[n].category))
                       \/ /\ DurationAt(data, PlacesOf(data, tables[m].category))
                                = DurationAt(data, PlacesOf(data, tables[n].category))
                          /\ \E i \in PlacesOf(data, tables[m].category) :
                                \A j \in PlacesOf(data, tables[n].category) : i < j
            /\ \A n \in 1..Len(tables) : SubcategoriesInOrder(data, tables[n])

\* A report over a half-hour ENG event, a 25-hour ADM event and an 8-hour
\* ENG event of another subcategory: ADM stands first, and under ENG the
\* subcategory met second stands first.
C22_Witness ==
    /\ Printed
    /\ last.events = <<EvDual, EvAdmin, EvStandup>>
    /\ [n \in 1..2 |-> last.rep.categories[n].category] = <<"ADM", "ENG">>
    /\ [n \in 1..2 |-> last.rep.categories[2].groups[n].subcategory]
          = <<<<"S">>, <<"@", "O">>>>

\* C23: the recurrence summary of every report lists exactly the distinct
\* titles of the input that contain at most one @ and start with @, three
\* upper-case letters and a space or an underscore on a single line.
C23_RecurrenceSummaryListsTagged ==
    (last.op = "generate_report" /\ last.rep.out = "report") =>
        last.rep.recurring
            = { last.events[i].summary :
                  i \in { j \in 1..Len(last.events) :
                            /\ CountAt(last.events[j].summary) <= 1
                            /\ Tagged(last.events[j].summary)
                            /\ \A k \in 1..Len(last.events[j].summary) :
                                  last.events[j].summary[k] # "\n" } }

\* The unit the three thresholds give to a duration in seconds
ThresholdUnit(secs) ==
    IF secs < 3600 THEN "min" ELSE IF secs < 24 * 3600 THEN "hrs" ELSE "day(s)"

\* C24: in every report the duration label of every event is in minutes for
\* a duration below 1 hour, in hours for a duration of at least 1 and below
\* 24 hours, and in days for a duration of 24 hours or more, for timed and
\* all-day events alike.
C24_LabelFollowsThresholds ==
    Printed =>
        \A i \in 1..Len(last.rep.data) :
            last.rep.data[i].duration_str.unit = ThresholdUnit(last.rep.data[i].duration)

\* C25: in every report the uncategorized listing holds exactly the events
\* whose category is "Other", each once, the longer event before the
\* shorter one, whatever their dates.
C25_UncategorizedByDuration ==
    Printed =>
        LET data   == last.rep.data
            others == last.rep.others
        IN  /\ Len(others) = Cardinality(PlacesOf(data, "Other"))
            /\ \E f \in [1..Len(others) -> PlacesOf(data, "Other")] :
                  /\ \A m, n \in 1..Len(others) : f[m] = f[n] => m = n
                  /\ \A n \in 1..Len(others) : others[n] = data[f[n]]
            /\ \A m, n \in 1..Len(others) :
                  m < n => others[m].duration >= others[n].duration

\* A report over a one-hour untagged event of 2024-01-01, an untagged
\* all-day event of the day after and a tagged event: the later, longer
\* untagged event stands first, the tagged one is not in the listing.
C25_Witness ==
    /\ Printed
    /\ last.events = <<EvLunch, EvTrip, EvStandup>>
    /\ [n \in 1..2 |-> last.rep.others[n].date] = <<"2024-01-02", "2024-01-01">>
    /\ [n \in 1..2 |-> last.rep.others[n].duration] = <<8 * 3600, 3600>>

\* The whole days from one datetime to another: the days between the two
\* dates, one less when the time of day of the second is the earlier one
RefWholeDays(start_date, end_date) ==
    (toordinal(end_date.year, end_date.month, end_date.day)
        - toordinal(start_date.year, start_date.month, start_date.day))
    - (IF end_date.hour * 3600 + end_date.minute * 60 + end_date.second
            < start_date.hour * 3600 + start_date.minute * 60 + start_date.second
       THEN 1 ELSE 0)

\* C26: for every report period and working_days_per_week, a report over a
\* list with events raises nothing and shows total_days = the whole days
\* from start to end + 1, working_days = an integer nearest to
\* total_days / 7 * working_days_per_week, and an average of total hours /
\* working_days, which is 0 when working_days is 0; a period from 00:00:00
\* to 23:59:59 of one day has total_days = 1.
C26_WorkingTimeStatistics ==
    (last.op = "generate_report" /\ "config" \in DOMAIN last /\ last.events # <<>>) =>
        LET rep == last.rep
            per_week == last.config.working_days_per_week
        IN  /\ rep.exc = "" /\ rep.out = "report"
            /\ rep.total_days = RefWholeDays(last.start_date, last.end_date) + 1
            /\ 7 * rep.working_days - rep.total_days * per_week \in -3..3
            /\ rep.working_days = 0 => rep.avg_hours_per_working_day.num = 0
            /\ rep.working_days # 0 =>
                  rep.avg_hours_per_working_day
                      = [num |-> RefTotal(last.events), den |-> 3600 * rep.working_days]
            /\ rep.avg_hours_per_working_day.den > 0
            /\ ( /\ last.start_date = datetime(NowYear, 1, 1, 0, 0, 0)
                 /\ last.end_date = datetime(NowYear, 1, 1, 23, 59, 59) )
                  => rep.total_days = 1

\* A report over one day with three working days a week and an event of
\* one hour: one day in total, no working day, and an average of 0.
C26_Witness ==
    /\ last.op = "generate_report" /\ "config" \in DOMAIN last
    /\ last.config.working_days_per_week = 3
    /\ last.events = <<EvLunch>>
    /\ last.end_date = datetime(NowYear, 1, 1, 23, 59, 59)
    /\ last.rep.out = "report"
    /\ last.rep.total_days = 1
    /\ last.rep.working_days = 0
    /\ last.rep.total_hours = 3600
    /\ last.rep.avg_hours_per_working_day.num = 0

\* A step that is a successful call of store_period_in_database.
StoredStep == last'.op = "store_period_in_database" /\ last'.ok

\* C27: a successful call of store_period_in_database for a key leaves, for
\* every other key, the answer of is_period_in_database and the events
\* returned by get_events_from_database as they were before the call, also
\* when the list holds event ids that are stored under the other key.
C27_StoreLeavesOtherKeys ==
    [][StoredStep =>
          \A k \in PeriodKeys \ {last'.key} :
              /\ IsComplete(k)' = IsComplete(k)
              /\ Load(k)' = Load(k)]_vars

\* C28: right after a successful call of store_period_in_database for a key
\* with an event list, get_events_from_database returns for the key exactly
\* the events of the list that have an id and a title; an event that an
\* earlier call stored under the key and that the list does not hold is
\* not returned.
C28_StoreReplacesPeriod ==
    (last.op = "store_period_in_database" /\ last.ok) =>
        LoadedPairs(last.key) = last.want

\* C30: for every title, the category column of the row that
\* store_period_in_database writes holds the category that the report's
\* rule derives from the title, whether the tag is followed by a space, an
\* underscore or another whitespace character.
C30_ColumnIsReportCategory ==
    (last.op = "store_period_in_database" /\ "events" \in DOMAIN last /\ last.ok) =>
        \A n \in 1..Len(events) :
            events[n].category = ReportCategory(events[n].summary).category

\* What a report shows of one event_data: all but the colour, which is
\* never printed
Shown(d) ==
    [summary |-> d.summary, subcategory |-> d.subcategory, date |-> d.date,
     duration |-> d.duration, duration_str |-> d.duration_str,
     category |-> d.category]

ShownAll(data) == [n \in 1..Len(data) |-> Shown(data[n])]

\* The categories, totals and listings of a report
ShownReport(rep) ==
    [all_events  |-> ShownAll(rep.all_events),
     total_hours |-> rep.total_hours,
     categories  |->
        [n \in 1..Len(rep.categories) |->
            [category |-> rep.categories[n].category,
             total    |-> rep.categories[n].total,
             count    |-> rep.categories[n].count,
             groups   |->
                [m \in 1..Len(rep.categories[n].groups) |->
                    [subcategory |-> rep.categories[n].groups[m].subcategory,
                     total       |-> rep.categories[n].groups[m].total,
                     events      |-> ShownAll(rep.categories[n].groups[m].events)]]]],
     other_total |-> rep.uncategorized.total,
     others      |-> ShownAll(rep.others)]

\* The report of an event list over January
JanuaryReport(evs) ==
    generate_report(evs, get_date_range("month_1").start_date,
                    get_date_range("month_1").end_date)

\* C29: when a fetched list has been stored and the events of its key are
\* loaded, generate_report over the loaded events raises nothing and shows
\* the same categories, totals and listings as generate_report over the
\* fetched list.
C29_CacheTransparent ==
    (last.op = "get_events_from_database" /\ "list" \in DOMAIN last) =>
        /\ JanuaryReport(last.result).exc = ""
        /\ ShownReport(JanuaryReport(last.result)) = ShownReport(JanuaryReport(last.list))

====
